---- MODULE Spec2Model ----
(***************************************************************************)
(* DNS-Gather: the zone-transfer retriever (dns_gather/zone_transfer.py),  *)
(* the transfer loop of the application controller (dns_gather/main.py)    *)
(* and the consolidated sheets of the workbook exporter                    *)
(* (dns_gather/excel_exporter.py).  Python strings are TLA+ strings        *)
(* (TLC treats them as sequences of one-character strings), Python lists   *)
(* are sequences, list objects that are shared by reference live in the    *)
(* heap `lists`.                                                           *)
(***************************************************************************)
EXTENDS Integers, Sequences, FiniteSets, TLC

VARIABLES
    logger,               \* ZoneTransfer.logger: TRUE when a logger was supplied
    validation_warnings,  \* ZoneTransfer.validation_warnings: reference into lists
    lists,                \* heap of the list objects validation_warnings has named
    logged,               \* the arguments of the logger.warning calls made so far
    call,                 \* per caller: the frame of its perform_axfr call
    ncalls,               \* number of perform_axfr calls started so far
    zones,                \* DNSGatherApp.run: the list of ZoneInfo objects
    records_by_zone,      \* DNSGatherApp.run: dict zone name -> list of DNSRecord
    run,                  \* DNSGatherApp.run: position and locals of the transfer loop
    ex                    \* ExcelExporter: the call being made and what it has built

vars == <<logger, validation_warnings, lists, logged, call, ncalls,
          zones, records_by_zone, run, ex>>

axfrVars == <<logger, validation_warnings, lists, logged, call, ncalls>>
runVars == <<zones, records_by_zone, run, ex>>

-----------------------------------------------------------------------------
(* Bounds of the model *)

MaxCalls == 2       \* perform_axfr calls made on one ZoneTransfer instance
MaxZones == 2       \* length of the zone list handed to the transfer loop

-----------------------------------------------------------------------------
(* Python string primitives used by the code *)

UpperAlpha == "ABCDEFGHIJKLMNOPQRSTUVWXYZ"
LowerAlpha == "abcdefghijklmnopqrstuvwxyz"

\* the lower-case letter of every upper-case letter
LowerOfUpper ==
    [c \in {SubSeq(UpperAlpha, k, k) : k \in 1..26} |->
        LET k == CHOOSE j \in 1..26 : SubSeq(UpperAlpha, j, j) = c
        IN SubSeq(LowerAlpha, k, k)]

\* one character of str.lower()
LowerChar(c) == IF c \in DOMAIN LowerOfUpper THEN LowerOfUpper[c] ELSE c

\* a comparison that keeps the case
LowerKept(s) == s

\* str.lower()
Lower(s) ==
    LET lowered[k \in 0..Len(s)] ==
            IF k = 0 THEN "" ELSE lowered[k - 1] \o LowerChar(SubSeq(s, k, k))
    IN lowered[Len(s)]

\* str.rstrip('.'): removes every trailing dot
RStripDot(s) ==
    LET kept == {k \in 1..Len(s) : SubSeq(s, k, k) # "."}
    IN IF kept = {} THEN ""
       ELSE SubSeq(s, 1, CHOOSE k \in kept : \A j \in kept : j <= k)

\* '.' in s
HasDot(s) == \E k \in 1..Len(s) : SubSeq(s, k, k) = "."

\* s.split('.')[0]: the text before the first dot, the whole of s without one
FirstLabel(s) ==
    IF HasDot(s)
    THEN LET k == CHOOSE j \in 1..Len(s) :
                      /\ SubSeq(s, j, j) = "."
                      /\ \A m \in 1..(j - 1) : SubSeq(s, m, m) # "."
         IN SubSeq(s, 1, k - 1)
    ELSE s

\* str.startswith
StartsWith(s, p) == Len(p) <= Len(s) /\ SubSeq(s, 1, Len(p)) = p

\* str.endswith
EndsWith(s, p) == Len(p) <= Len(s) /\ SubSeq(s, Len(s) - Len(p) + 1, Len(s)) = p

\* truthiness of a str or a list
Truthy(x) == Len(x) > 0

-----------------------------------------------------------------------------
(* The zone transfer provider (dnspython), as perform_axfr sees it *)

\* exception classes the provider, the parse or the logger may raise
ExcTypes == {"FormError", "TransferError", "Timeout", "ValueError"}

\* str(e) of the raised exception
ExcTexts == {"", "REFUSED"}

Exceptions == [type : ExcTypes, text : ExcTexts]

\* isinstance(e, cls) for the classes named by the except clauses
IsInstance(e, cls) ==
    CASE cls = "Exception" -> TRUE
      [] OTHER -> e.type = cls

\* dns.rdatatype.to_text for the type codes the canned zones use
RdatatypeToText(rdtype) ==
    CASE rdtype = 1 -> "A"
      [] rdtype = 5 -> "CNAME"
      [] rdtype = 12 -> "PTR"
      [] rdtype = 28 -> "AAAA"
      [] rdtype = 33 -> "SRV"
      [] OTHER -> "TYPE"

Rdataset(rdtype, ttl, rdatas) == [rdtype |-> rdtype, ttl |-> ttl, rdatas |-> rdatas]
Node(name, rdatasets) == [name |-> name, rdatasets |-> rdatasets]

\* zone.nodes of the zones the provider hands back: name -> node, in dict order
ZoneEmpty == << >>
ZoneHosts == << Node("www", << Rdataset(1, 300, <<"192.168.1.1", "192.168.1.2">>) >>) >>
ZoneAlias ==
    << Node("www", << Rdataset(5, 300, <<"web.example.com.">>) >>),
       Node("mail", << Rdataset(5, 600, <<"MAIL.example.com.">>) >>) >>
ZoneApex ==
    << Node("@", << Rdataset(5, 3600, <<"example.net.">>),
                    Rdataset(1, 3600, <<"10.0.0.1">>) >>),
       Node("ftp.eu", << Rdataset(5, 60, <<"files">>) >>) >>

ProviderZones == {ZoneEmpty, ZoneHosts, ZoneAlias, ZoneApex}

ZoneNames == {"example.com", "test.org"}

\* the callers that may hold a perform_axfr frame on the one ZoneTransfer instance
Callers == {1}

-----------------------------------------------------------------------------
(* ZoneTransfer.parse_zone_data and _validate_hostname_match *)

\* lines 101-114 with one record per rdataset: only its first rdata is taken
RdataItemsFirstOnly(name, rdataset, rdatas) ==
    IF rdatas = << >> THEN << >>
    ELSE << [name |-> name, rdtype |-> rdataset.rdtype, ttl |-> rdataset.ttl,
             rdata |-> Head(rdatas)] >>

RECURSIVE RdataItems(_, _, _)
\* for rdata in rdataset: one item per rdata, in rdataset order
RdataItems(name, rdataset, rdatas) ==
    IF rdatas = << >> THEN << >>
    ELSE << [name |-> name, rdtype |-> rdataset.rdtype, ttl |-> rdataset.ttl,
             rdata |-> Head(rdatas)] >> \o RdataItems(name, rdataset, Tail(rdatas))

RECURSIVE RdatasetItems(_, _)
\* for rdataset in node.rdatasets
RdatasetItems(name, rdatasets) ==
    IF rdatasets = << >> THEN << >>
    ELSE RdataItems(name, Head(rdatasets), Head(rdatasets).rdatas)
         \o RdatasetItems(name, Tail(rdatasets))

RECURSIVE ZoneItems(_)
\* for name, node in zone.nodes.items(): the rdatas in node, rdataset, rdata order
ZoneItems(zone) ==
    IF zone = << >> THEN << >>
    ELSE RdatasetItems(Head(zone).name, Head(zone).rdatasets) \o ZoneItems(Tail(zone))

\* the FQDN parse_zone_data builds for a node name
Fqdn(name_str, zone_name) ==
    IF name_str = "@" THEN zone_name
    ELSE IF EndsWith(name_str, ".") THEN RStripDot(name_str)
    ELSE RStripDot(name_str \o "." \o zone_name)

\* DNSRecord(name=name_str, record_type=rtype, ttl=ttl, data=data_str)
DNSRecord(name, record_type, ttl, data) ==
    [name |-> name, record_type |-> record_type, ttl |-> ttl, data |-> data]

\* hostname_part of _validate_hostname_match
HostnamePart(record_name, zone_name) ==
    IF record_name = "@" THEN FirstLabel(zone_name)
    ELSE IF HasDot(record_name) THEN FirstLabel(record_name)
    ELSE record_name

\* target_hostname of _validate_hostname_match
TargetHostname(target) == IF HasDot(target) THEN FirstLabel(target) ELSE target

\* the f-string of the CNAME mismatch warning
MismatchWarning(zone_name, record_name, hostname_part, target, target_hostname) ==
    "Zone " \o zone_name \o ": CNAME mismatch - " \o
    "Record '" \o record_name \o "' (hostname: " \o hostname_part \o ") " \o
    "points to '" \o target \o "' (hostname: " \o target_hostname \o ")"

\* lines 130-165 with the comparison of lines 159-165 made for A and AAAA
\* records as well
ValidateAddressesToo(record_name, fqdn, record_type, data, zone_name) ==
    IF record_type \notin {"A", "AAAA", "CNAME"} THEN << >>
    ELSE LET hostname_part == HostnamePart(record_name, zone_name)
             target == RStripDot(data)
             target_hostname == TargetHostname(target)
         IN IF Lower(hostname_part) # Lower(target_hostname)
            THEN << MismatchWarning(zone_name, record_name, hostname_part,
                                    target, target_hostname) >>
            ELSE << >>

\* _validate_hostname_match: the warnings it appends to self.validation_warnings
ValidateHostnameMatch(record_name, fqdn, record_type, data, zone_name) ==
    IF record_type \notin {"A", "AAAA", "CNAME"} THEN << >>
    ELSE LET hostname_part == HostnamePart(record_name, zone_name)
             target == RStripDot(data)
             target_hostname == TargetHostname(target)
         IN IF record_type = "CNAME"
            THEN IF Lower(hostname_part) # Lower(target_hostname)
                 THEN << MismatchWarning(zone_name, record_name, hostname_part,
                                         target, target_hostname) >>
                 ELSE << >>
            ELSE << >>

-----------------------------------------------------------------------------
(* ZoneTransfer.perform_axfr *)

NoException == [type |-> "none", text |-> "", at |-> "none"]

\* a frame nobody has called yet
IdleFrame ==
    [pc |-> "idle", id |-> 0, zone_name |-> "", zone |-> << >>, pos |-> 0,
     parsed |-> << >>, records |-> << >>, error_message |-> "",
     it_list |-> 0, it_pos |-> 0,
     raised |-> NoException,    \* history: the exception raised inside the try
     produced |-> << >>]        \* history: the warnings this call appended

\* the clauses without the final `except Exception`
ExceptClausesNoCatchAll == << "FormError", "TransferError", "Timeout" >>

\* the clauses with `except Exception` written first
ExceptClausesCatchAllFirst == << "Exception", "FormError", "TransferError", "Timeout" >>

\* the except clauses of perform_axfr, in source order
ExceptClauses == << "FormError", "TransferError", "Timeout", "Exception" >>

\* the class of the first except clause that matches e, "unhandled" without one
HandlerFor(e) ==
    IF \E k \in 1..Len(ExceptClauses) : IsInstance(e, ExceptClauses[k])
    THEN LET k == CHOOSE j \in 1..Len(ExceptClauses) :
                      /\ IsInstance(e, ExceptClauses[j])
                      /\ \A m \in 1..(j - 1) : ~IsInstance(e, ExceptClauses[m])
         IN ExceptClauses[k]
    ELSE "unhandled"

PrefixDenied == "Zone transfer denied or malformed: "
PrefixError == "Zone transfer error: "
PrefixTimeout == "Zone transfer timeout for "
PrefixFailed == "Zone transfer failed: "

\* every clause assigning the bare str(e)
ExceptMessageBare(cls, e, zone_name) == e.text

\* the error_message the except clause for class cls assigns
ExceptMessage(cls, e, zone_name) ==
    CASE cls = "FormError" -> PrefixDenied \o e.text
      [] cls = "TransferError" -> PrefixError \o e.text
      [] cls = "Timeout" -> PrefixTimeout \o zone_name
      [] OTHER -> PrefixFailed \o e.text

\* an exception e raised inside the try block, at step `at`, and its handling
Raise(c, e, at) ==
    LET cls == HandlerFor(e)
        f == call[c]
    IN call' = [call EXCEPT ![c] =
           IF cls = "unhandled"
           THEN [f EXCEPT !.pc = "propagated",
                          !.raised = [type |-> e.type, text |-> e.text, at |-> at]]
           ELSE [f EXCEPT !.pc = "return",
                          !.error_message = ExceptMessage(cls, e, f.zone_name),
                          !.raised = [type |-> e.type, text |-> e.text, at |-> at]]]

\* the list objects a for loop over validation_warnings is still iterating
Iterated == {call[d].it_list : d \in {x \in DOMAIN call : call[x].pc = "log"}}

\* lines 27, 37-38: the call is entered, records = [] and error_message = ''
Enter(c, zone_name) ==
    call' = [call EXCEPT ![c] =
                [IdleFrame EXCEPT !.pc = "reset", !.id = ncalls + 1,
                                  !.zone_name = zone_name]]

\* line 39 left out: the list of the previous call stays in place
ResetWarningsKept(c) ==
    /\ call[c].pc = "reset"
    /\ call' = [call EXCEPT ![c].pc = "xfr"]
    /\ UNCHANGED <<logger, validation_warnings, lists, logged, ncalls, runVars>>

\* line 39: self.validation_warnings = [] (a new list object)
ResetWarnings(c) ==
    /\ call[c].pc = "reset"
    /\ LET live == Iterated
           new == CHOOSE n \in 1..(Cardinality(live) + 1) :
                      /\ n \notin live
                      /\ \A m \in 1..(n - 1) : m \in live
       IN /\ lists' = [id \in live \cup {new} |->
                          IF id = new THEN << >> ELSE lists[id]]
          /\ validation_warnings' = new
    /\ call' = [call EXCEPT ![c].pc = "xfr"]
    /\ UNCHANGED <<logger, logged, ncalls, runVars>>

\* lines 43-52: the provider hands back a zone
XfrZone(c, zone) ==
    /\ call[c].pc = "xfr"
    /\ call' = [call EXCEPT ![c].pc = "parse", ![c].zone = zone, ![c].pos = 1]
    /\ UNCHANGED <<logger, validation_warnings, lists, logged, ncalls, runVars>>

\* lines 43-52: dns.query.xfr / dns.zone.from_xfr raise
XfrRaise(c, e) ==
    /\ call[c].pc = "xfr"
    /\ Raise(c, e, "xfr")
    /\ UNCHANGED <<logger, validation_warnings, lists, logged, ncalls, runVars>>

\* lines 86-114: one rdata is validated and appended to parse_zone_data's records
ParseRecord(c) ==
    LET f == call[c]
        items == ZoneItems(f.zone)
    IN /\ f.pc = "parse"
       /\ f.pos <= Len(items)
       /\ LET item == items[f.pos]
              name_str == item.name
              fqdn == Fqdn(name_str, f.zone_name)
              rtype == RdatatypeToText(item.rdtype)
              data_str == item.rdata
              warnings == ValidateHostnameMatch(name_str, fqdn, rtype, data_str,
                                                f.zone_name)
          IN /\ lists' = [lists EXCEPT ![validation_warnings] = @ \o warnings]
             /\ call' = [call EXCEPT
                   ![c].parsed = Append(@, DNSRecord(name_str, rtype, item.ttl, data_str)),
                   ![c].pos = @ + 1,
                   ![c].produced = @ \o warnings]
       /\ UNCHANGED <<logger, validation_warnings, logged, ncalls, runVars>>

\* lines 55, 86-114: parse_zone_data raises
ParseRaise(c, e) ==
    /\ call[c].pc = "parse"
    /\ Raise(c, e, "parse")
    /\ UNCHANGED <<logger, validation_warnings, lists, logged, ncalls, runVars>>

\* lines 116, 55: parse_zone_data returns and perform_axfr binds records
ParseReturn(c) ==
    /\ call[c].pc = "parse"
    /\ call[c].pos > Len(ZoneItems(call[c].zone))
    /\ call' = [call EXCEPT ![c].records = call[c].parsed, ![c].pc = "logif"]
    /\ UNCHANGED <<logger, validation_warnings, lists, logged, ncalls, runVars>>

\* line 58: if self.validation_warnings and self.logger
LogIf(c) ==
    /\ call[c].pc = "logif"
    /\ call' = [call EXCEPT ![c].pc =
                   IF Truthy(lists[validation_warnings]) /\ logger
                   THEN "logfor" ELSE "return"]
    /\ UNCHANGED <<logger, validation_warnings, lists, logged, ncalls, runVars>>

\* line 59: the for loop takes an iterator over the list validation_warnings names
LogFor(c) ==
    /\ call[c].pc = "logfor"
    /\ call' = [call EXCEPT ![c].pc = "log", ![c].it_list = validation_warnings,
                            ![c].it_pos = 1]
    /\ UNCHANGED <<logger, validation_warnings, lists, logged, ncalls, runVars>>

\* lines 59-60 with the warning handed to self.logger.warning twice
LogWarningTwice(c) ==
    LET f == call[c]
        entry == [id |-> f.id, warning |-> lists[f.it_list][f.it_pos]]
    IN /\ f.pc = "log"
       /\ f.it_pos <= Len(lists[f.it_list])
       /\ logged' = logged \o << entry, entry >>
       /\ call' = [call EXCEPT ![c].it_pos = @ + 1]
       /\ UNCHANGED <<logger, validation_warnings, lists, ncalls, runVars>>

\* lines 59-60: the next warning goes to self.logger.warning
LogWarning(c) ==
    LET f == call[c]
    IN /\ f.pc = "log"
       /\ f.it_pos <= Len(lists[f.it_list])
       /\ logged' = Append(logged, [id |-> f.id, warning |-> lists[f.it_list][f.it_pos]])
       /\ call' = [call EXCEPT ![c].it_pos = @ + 1]
       /\ UNCHANGED <<logger, validation_warnings, lists, ncalls, runVars>>

\* line 60: self.logger.warning raises
LogRaise(c, e) ==
    LET f == call[c]
    IN /\ f.pc = "log"
       /\ f.it_pos <= Len(lists[f.it_list])
       /\ Raise(c, e, "log")
       /\ UNCHANGED <<logger, validation_warnings, lists, logged, ncalls, runVars>>

\* line 59: the iterator is exhausted
LogEnd(c) ==
    /\ call[c].pc = "log"
    /\ call[c].it_pos > Len(lists[call[c].it_list])
    /\ call' = [call EXCEPT ![c].pc = "return"]
    /\ UNCHANGED <<logger, validation_warnings, lists, logged, ncalls, runVars>>

-----------------------------------------------------------------------------
(* perform_axfr called repeatedly on one ZoneTransfer instance (the unit tests) *)

\* ZoneTransfer.__init__
InitTransfer(with_logger) ==
    /\ logger = with_logger
    /\ validation_warnings = 1
    /\ lists = [id \in {1} |-> << >>]
    /\ logged = << >>
    /\ call = [c \in Callers |-> IdleFrame]
    /\ ncalls = 0

\* a caller invokes transfer.perform_axfr(zone_name)
Invoke(c, zone_name) ==
    /\ \A d \in Callers : call[d].pc = "idle"
    /\ ncalls < MaxCalls
    /\ Enter(c, zone_name)
    /\ ncalls' = ncalls + 1
    /\ UNCHANGED <<logger, validation_warnings, lists, logged, runVars>>

\* line 71: return records, error_message
Return(c) ==
    /\ call[c].pc = "return"
    /\ call' = [call EXCEPT ![c].pc = "idle"]
    /\ UNCHANGED <<logger, validation_warnings, lists, logged, ncalls, runVars>>

\* DNSGatherApp.run is not running
NoRun ==
    [pc |-> "none", i |-> 0, records |-> << >>, error |-> "",
     attempted |-> << >>, returned |-> << >>]

\* no ExcelExporter method has been called
NoExport == [pc |-> "none", fn |-> "", args |-> << >>, result |-> << >>]

InitAxfr ==
    /\ \E with_logger \in BOOLEAN : InitTransfer(with_logger)
    /\ zones = << >>
    /\ records_by_zone = << >>
    /\ run = NoRun
    /\ ex = NoExport

NextAxfr ==
    \E c \in Callers :
        \/ \E zone_name \in ZoneNames : Invoke(c, zone_name)
        \/ ResetWarnings(c)
        \/ \E zone \in ProviderZones : XfrZone(c, zone)
        \/ \E e \in Exceptions : XfrRaise(c, e)
        \/ ParseRecord(c)
        \/ \E e \in Exceptions : ParseRaise(c, e)
        \/ ParseReturn(c)
        \/ LogIf(c)
        \/ LogFor(c)
        \/ LogWarning(c)
        \/ \E e \in Exceptions : LogRaise(c, e)
        \/ LogEnd(c)
        \/ Return(c)

SpecAxfr == InitAxfr /\ [][NextAxfr]_vars

-----------------------------------------------------------------------------
(* _validate_hostname_match applied to one record of a transferred zone *)

\* the record names, record data, record types and zone names it is given
ValidateNames == {"@", "www", "WWW", "web", "www.sub", "w"}
ValidateData == {"www.example.com.", "web.example.com.", "WWW", "www",
                 "web.", "www.sub.example.com.", "."}
ValidateTypes == {1, 5, 12, 28}
ValidateZoneNames == {"example.com", "www.test.org", "web"}

\* a transferred zone holding one record
OneRecordZone(name, rdtype, data) == << Node(name, << Rdataset(rdtype, 300, << data >>) >>) >>

\* a ZoneTransfer whose perform_axfr(zone_name) has received a one-record zone
\* and is about to parse it
InitValidate ==
    /\ logger \in BOOLEAN
    /\ validation_warnings = 1
    /\ lists = [id \in {1} |-> << >>]
    /\ logged = << >>
    /\ ncalls = 1
    /\ \E name \in ValidateNames, rdtype \in ValidateTypes, data \in ValidateData,
          zone_name \in ValidateZoneNames :
           call = [c \in Callers |->
                      [IdleFrame EXCEPT !.pc = "parse", !.id = 1, !.pos = 1,
                                        !.zone_name = zone_name,
                                        !.zone = OneRecordZone(name, rdtype, data)]]
    /\ zones = << >>
    /\ records_by_zone = << >>
    /\ run = NoRun
    /\ ex = NoExport

NextValidate ==
    \E c \in Callers :
        \/ ParseRecord(c)
        \/ ParseReturn(c)

SpecValidate == InitValidate /\ [][NextValidate]_vars

-----------------------------------------------------------------------------
(* Two threads calling perform_axfr on one ZoneTransfer instance *)

Threads == {1, 2}

\* the zone each thread transfers
ThreadZone == << "example.com", "test.org" >>

\* what the provider and the logger do while two threads are running
ThreadZones == {ZoneEmpty, ZoneAlias, ZoneApex}
ThreadExceptions == {[type |-> "Timeout", text |-> ""]}

\* thread c calls transfer.perform_axfr(ThreadZone[c]), once
Start(c) ==
    /\ call[c].pc = "idle"
    /\ call[c].id = 0
    /\ ncalls < MaxCalls
    /\ Enter(c, ThreadZone[c])
    /\ ncalls' = ncalls + 1
    /\ UNCHANGED <<logger, validation_warnings, lists, logged, runVars>>

InitThreads ==
    /\ logger = TRUE
    /\ validation_warnings = 1
    /\ lists = [id \in {1} |-> << >>]
    /\ logged = << >>
    /\ call = [c \in Threads |-> IdleFrame]
    /\ ncalls = 0
    /\ zones = << >>
    /\ records_by_zone = << >>
    /\ run = NoRun
    /\ ex = NoExport

NextThreads ==
    \E c \in Threads :
        \/ Start(c)
        \/ ResetWarnings(c)
        \/ \E zone \in ThreadZones : XfrZone(c, zone)
        \/ \E e \in ThreadExceptions : XfrRaise(c, e)
        \/ ParseRecord(c)
        \/ \E e \in ThreadExceptions : ParseRaise(c, e)
        \/ ParseReturn(c)
        \/ LogIf(c)
        \/ LogFor(c)
        \/ LogWarning(c)
        \/ \E e \in ThreadExceptions : LogRaise(c, e)
        \/ LogEnd(c)
        \/ Return(c)

SpecThreads == InitThreads /\ [][NextThreads]_vars

-----------------------------------------------------------------------------
(* ZoneDiscovery: the ZoneInfo objects handed to the transfer loop *)

ZoneInfo(name, zone_type, serial, transfer_status, record_count, error_message) ==
    [name |-> name, zone_type |-> zone_type, serial |-> serial,
     transfer_status |-> transfer_status, record_count |-> record_count,
     error_message |-> error_message]

\* enumerate_zones: the ZoneInfo built for one line of the dnscmd output
EnumeratedZone(zone_name, zone_type) ==
    ZoneInfo(zone_name, zone_type, 0, "Pending", 0, "")

\* the zone lists enumerate_zones can return that pass `if not zones`
EnumeratedLists ==
    UNION {[1..n -> {EnumeratedZone(zn, "Primary") : zn \in ZoneNames}] : n \in 1..MaxZones}

\* what dns_manager.query(zone_name, 'SOA', 'IN') does in get_zone_metadata
SoaOutcomes ==
    {[kind |-> "soa", serial |-> 7, text |-> ""],
     [kind |-> "raise", serial |-> 0, text |-> "timed out"]}

\* get_zone_metadata
GetZoneMetadata(zone_name, outcome) ==
    CASE outcome.kind = "soa" ->
             ZoneInfo(zone_name, "Primary", outcome.serial, "Pending", 0, "")
      [] outcome.kind = "raise" ->
             ZoneInfo(zone_name, "Unknown", 0, "Pending", 0,
                      "Failed to get metadata: " \o outcome.text)
      [] OTHER -> ZoneInfo(zone_name, "Unknown", 0, "Pending", 0, "")

\* discover_zones_from_list: one get_zone_metadata result per zone name
ListedLists ==
    UNION {[1..n -> {GetZoneMetadata(zn, o) : zn \in ZoneNames, o \in SoaOutcomes}] :
               n \in 1..MaxZones}

-----------------------------------------------------------------------------
(* DNSGatherApp.run: the transfer loop, lines 121-139, and the handler of     *)
(* KeyboardInterrupt, lines 158-161                                           *)

\* the caller id of the loop's perform_axfr calls
Driver == 1

\* dict assignment d[key] = value
DictSet(d, key, value) ==
    [k \in DOMAIN d \cup {key} |-> IF k = key THEN value ELSE d[k]]

\* lines 121-122: transfer = ZoneTransfer(dns_manager); records_by_zone = {}
InitLoop(zone_list) ==
    /\ InitTransfer(FALSE)
    /\ zones = zone_list
    /\ records_by_zone = [k \in {} |-> << >>]
    /\ run = [NoRun EXCEPT !.pc = "for"]
    /\ ex = NoExport

\* the loop left with `break` once a zone has failed
ForNextBreak ==
    /\ run.pc = "for"
    /\ run' = IF run.i >= 1 /\ zones[run.i].transfer_status = "Failed"
              THEN [run EXCEPT !.pc = "export"]
              ELSE IF run.i < Len(zones)
                   THEN [run EXCEPT !.i = @ + 1, !.pc = "call"]
                   ELSE [run EXCEPT !.pc = "export"]
    /\ UNCHANGED <<axfrVars, zones, records_by_zone, ex>>

\* a failed zone transferred a second time before the loop moves on
ForNextRetry ==
    /\ run.pc = "for"
    /\ run' = IF /\ run.i >= 1
                 /\ zones[run.i].transfer_status = "Failed"
                 /\ Cardinality({k \in 1..Len(run.attempted) : run.attempted[k] = run.i}) < 2
              THEN [run EXCEPT !.pc = "call"]
              ELSE IF run.i < Len(zones)
                   THEN [run EXCEPT !.i = @ + 1, !.pc = "call"]
                   ELSE [run EXCEPT !.pc = "export"]
    /\ UNCHANGED <<axfrVars, zones, records_by_zone, ex>>

\* line 124: the for loop takes the next zone, or ends
ForNext ==
    /\ run.pc = "for"
    /\ run' = IF run.i < Len(zones)
              THEN [run EXCEPT !.i = @ + 1, !.pc = "call"]
              ELSE [run EXCEPT !.pc = "export"]
    /\ UNCHANGED <<axfrVars, zones, records_by_zone, ex>>

\* line 127: transfer.perform_axfr(zone.name) is called
CallAxfr ==
    /\ run.pc = "call"
    /\ call[Driver].pc = "idle"
    /\ Enter(Driver, zones[run.i].name)
    /\ ncalls' = ncalls + 1
    /\ run' = [run EXCEPT !.pc = "wait", !.attempted = Append(@, run.i)]
    /\ UNCHANGED <<logger, validation_warnings, lists, logged, zones, records_by_zone, ex>>

\* line 127: records, error = the pair perform_axfr returns; its frame is gone
Receive ==
    /\ run.pc = "wait"
    /\ call[Driver].pc = "return"
    /\ call' = [call EXCEPT ![Driver] = IdleFrame]
    /\ run' = [run EXCEPT !.pc = "store",
                          !.records = call[Driver].records,
                          !.error = call[Driver].error_message,
                          !.returned = Append(@, [records |-> call[Driver].records,
                                                  error |-> call[Driver].error_message])]
    /\ UNCHANGED <<logger, validation_warnings, lists, logged, ncalls, zones, records_by_zone, ex>>

\* the entry stored only for a non-empty record list
StoreNonEmpty ==
    /\ run.pc = "store"
    /\ records_by_zone' = IF Truthy(run.records)
                          THEN DictSet(records_by_zone, zones[run.i].name, run.records)
                          ELSE records_by_zone
    /\ run' = [run EXCEPT !.pc = "count"]
    /\ UNCHANGED <<axfrVars, zones, ex>>

\* line 128: records_by_zone[zone.name] = records
Store ==
    /\ run.pc = "store"
    /\ records_by_zone' = DictSet(records_by_zone, zones[run.i].name, run.records)
    /\ run' = [run EXCEPT !.pc = "count"]
    /\ UNCHANGED <<axfrVars, zones, ex>>

\* len(records_by_zone) written for len(records)
CountKeys ==
    /\ run.pc = "count"
    /\ zones' = [zones EXCEPT ![run.i].record_count = Cardinality(DOMAIN records_by_zone)]
    /\ run' = [run EXCEPT !.pc = "status"]
    /\ UNCHANGED <<axfrVars, records_by_zone, ex>>

\* line 130: zone.record_count = len(records)
Count ==
    /\ run.pc = "count"
    /\ zones' = [zones EXCEPT ![run.i].record_count = Len(run.records)]
    /\ run' = [run EXCEPT !.pc = "status"]
    /\ UNCHANGED <<axfrVars, records_by_zone, ex>>

\* lines 131-139: if error: 'Failed' and the message, else 'Success'
Status ==
    /\ run.pc = "status"
    /\ zones' = IF Truthy(run.error)
                THEN [zones EXCEPT ![run.i].transfer_status = "Failed",
                                   ![run.i].error_message = run.error]
                ELSE [zones EXCEPT ![run.i].transfer_status = "Success"]
    /\ run' = [run EXCEPT !.pc = "for"]
    /\ UNCHANGED <<axfrVars, records_by_zone, ex>>

\* the handler throws away what the loop has stored so far
InterruptDiscards ==
    /\ run.pc \in {"for", "call", "wait", "store", "count", "status"}
    /\ run' = [run EXCEPT !.pc = "cancelled"]
    /\ call' = [call EXCEPT ![Driver] = IdleFrame]
    /\ records_by_zone' = [k \in {} |-> << >>]
    /\ UNCHANGED <<logger, validation_warnings, lists, logged, ncalls, zones, ex>>

\* lines 158-161: KeyboardInterrupt anywhere in the loop unwinds the frames
\* and run returns 130
Interrupt ==
    /\ run.pc \in {"for", "call", "wait", "store", "count", "status"}
    /\ run' = [run EXCEPT !.pc = "cancelled"]
    /\ call' = [call EXCEPT ![Driver] = IdleFrame]
    /\ UNCHANGED <<logger, validation_warnings, lists, logged, ncalls, zones, records_by_zone, ex>>

InitRun == \E zone_list \in EnumeratedLists : InitLoop(zone_list)

\* the steps of the program itself: the loop and the perform_axfr call it makes
\* (the loop's ZoneTransfer has no logger, so line 58 never enters the for loop)
RunStep ==
    \/ ForNext
    \/ CallAxfr
    \/ ResetWarnings(Driver)
    \/ \E zone \in ProviderZones : XfrZone(Driver, zone)
    \/ \E e \in Exceptions : XfrRaise(Driver, e)
    \/ \E e \in Exceptions : ParseRaise(Driver, e)
    \/ ParseReturn(Driver)
    \/ ParseRecord(Driver)
    \/ LogIf(Driver)
    \/ Receive
    \/ Store
    \/ Count
    \/ Status

NextRun == RunStep \/ Interrupt

SpecRun == InitRun /\ [][NextRun]_vars

\* the same loop over a zone list built by discover_zones_from_list, the other
\* producer of ZoneInfo objects (run itself calls enumerate_zones, InitRun)
InitRunListed == \E zone_list \in ListedLists : InitLoop(zone_list)

SpecRunListed == InitRunListed /\ [][NextRun]_vars

\* the interpreter keeps executing the loop until it ends or is interrupted
FairRun == SpecRun /\ WF_vars(RunStep)

-----------------------------------------------------------------------------
(* Properties of perform_axfr, checked under SpecAxfr *)

\* the perform_axfr frames that stand at the return statement of line 71
Returning == {c \in Callers : call[c].pc = "return"}

\* C1: perform_axfr never propagates an exception: whatever the provider
\* call, the parse or the logger raises (FormError, TransferError, Timeout or
\* any other Exception), no frame is left by an exception, and a frame in
\* which one was raised stands at (or has passed) its return statement with
\* the error message set.
C1_NeverPropagates ==
    \A c \in Callers :
        /\ call[c].pc # "propagated"
        /\ call[c].raised.type # "none" =>
               /\ call[c].pc \in {"return", "idle"}
               /\ call[c].error_message \in STRING

\* a parse that raised an exception of no class named by a clause has returned
C1_Witness ==
    \E c \in Returning :
        /\ call[c].raised.type = "ValueError"
        /\ call[c].raised.at = "parse"
        /\ call[c].parsed # << >>

\* C2: whenever perform_axfr returns a non-empty error_message, the record
\* list it returns is empty, whichever step of the call failed.
C2_ErrorMeansNoRecords ==
    \A c \in Returning : call[c].error_message # "" => call[c].records = << >>

\* C3: perform_axfr returns an empty error_message exactly when no exception
\* was raised inside the call: every failure gives a non-empty message, also
\* when str(e) is empty, and a transfer of a zone without records that raised
\* nothing returns ([], '').
C3_EmptyErrorIffSucceeded ==
    \A c \in Returning :
        /\ call[c].error_message = "" <=> call[c].raised.type = "none"
        /\ call[c].raised.type # "none" => Len(call[c].error_message) > 0
        /\ (call[c].raised.type = "none" /\ ZoneItems(call[c].zone) = << >>) =>
               (call[c].records = << >> /\ call[c].error_message = "")

\* a failure whose exception text is empty has returned
C3_Witness ==
    \E c \in Returning :
        /\ call[c].raised.type = "FormError"
        /\ call[c].raised.text = ""
        /\ call[c].error_message # ""

\* the four prefixes of the failure messages
FailurePrefixes == {PrefixDenied, PrefixError, PrefixTimeout, PrefixFailed}

\* the prefix a failure category is to be reported with
CategoryPrefix(type) ==
    CASE type = "FormError" -> PrefixDenied
      [] type = "TransferError" -> PrefixError
      [] type = "Timeout" -> PrefixTimeout
      [] OTHER -> PrefixFailed

\* C9: the four failure categories have four different message prefixes,
\* none a prefix of another, and the message returned for a failure starts
\* with the prefix of its category and with no other, whatever str(e) is.
C9_PrefixByCategory ==
    /\ Cardinality(FailurePrefixes) = 4
    /\ \A p, q \in FailurePrefixes : p # q => ~StartsWith(q, p)
    /\ \A c \in Returning :
           call[c].raised.type # "none" =>
               \A p \in FailurePrefixes :
                   StartsWith(call[c].error_message, p)
                       <=> p = CategoryPrefix(call[c].raised.type)

\* a TransferError with a non-empty text has returned
C9_Witness ==
    \E c \in Returning :
        /\ call[c].raised.type = "TransferError"
        /\ call[c].raised.text = "REFUSED"
        /\ call[c].error_message = "Zone transfer error: REFUSED"

\* C10: from the reset of the most recent perform_axfr call on,
\* validation_warnings holds exactly the warnings that call has produced
\* (none when it failed before parsing): no warning of an earlier call is
\* left in it.
C10_WarningsOfLastCall ==
    \A c \in Callers :
        (ncalls > 0 /\ call[c].id = ncalls /\ call[c].pc # "reset") =>
            /\ lists[validation_warnings] = call[c].produced
            /\ call[c].raised.at = "xfr" => lists[validation_warnings] = << >>

\* a call that failed before parsing has returned after an earlier call
\* produced (and logged) a warning
C10_Witness ==
    /\ ncalls >= 2
    /\ \A c \in Callers : call[c].pc = "idle"
    /\ \E c \in Callers : call[c].id = ncalls /\ call[c].raised.at = "xfr"
    /\ \E k \in 1..Len(logged) : logged[k].id < ncalls
    /\ lists[validation_warnings] = << >>

-----------------------------------------------------------------------------
(* Properties of the transfer loop of DNSGatherApp.run *)

\* the statuses that end a zone's transfer
Terminal == {"Success", "Failed"}

\* the loop body has run to its end for zone k and the loop was not cut short
Processed(k) == k < run.i \/ (k = run.i /\ run.pc \in {"for", "export"})

\* C4: the loop reaches the end of the zone list unless it is interrupted: a
\* zone that failed (a timeout included) is followed by the attempt of the
\* next zone, and when the loop has finished every zone is 'Success' or
\* 'Failed', none 'Pending'.
C4_LoopReachesEnd ==
    /\ [](run.pc = "export" =>
              \A k \in 1..Len(zones) : zones[k].transfer_status \in Terminal)
    /\ \A k \in 1..MaxZones :
           [](( /\ k < Len(zones)
                /\ Processed(k)
                /\ zones[k].transfer_status = "Failed" )
              => <>(Len(run.attempted) > k \/ run.pc = "cancelled"))
    /\ <>(run.pc \in {"export", "cancelled"})

\* the loop has finished after a zone that timed out and one that succeeded
C4_Witness ==
    /\ run.pc = "export"
    /\ Len(zones) >= 2
    /\ zones[1].transfer_status = "Failed"
    /\ StartsWith(zones[1].error_message, PrefixTimeout)
    /\ zones[2].transfer_status = "Success"

\* C5: the zones are transferred once each, in input order (the attempts are
\* zone 1, 2, ... and, when the loop has finished, all of them); a status
\* only ever changes from 'Pending' to 'Success' or 'Failed', and a zone that
\* is 'Success' or 'Failed' is neither changed nor transferred again.
C5_OnceInOrder ==
    /\ [](run.attempted = [k \in 1..Len(run.attempted) |-> k])
    /\ [](run.pc = "export" => Len(run.attempted) = Len(zones))
    /\ [][\A k \in 1..Len(zones) :
              /\ zones'[k].transfer_status # zones[k].transfer_status =>
                     /\ zones[k].transfer_status = "Pending"
                     /\ zones'[k].transfer_status \in Terminal
              /\ zones[k].transfer_status \in Terminal =>
                     /\ zones'[k] = zones[k]
                     /\ \A j \in 1..Len(run'.attempted) :
                            run'.attempted[j] = k => j <= Len(run.attempted)]_vars

\* the loop has finished and a zone that failed was attempted once
C5_Witness ==
    /\ run.pc = "export"
    /\ Len(zones) >= 2
    /\ zones[1].transfer_status = "Failed"
    /\ Cardinality({j \in 1..Len(run.attempted) : run.attempted[j] = 1}) = 1

\* C6: a processed zone is 'Success' exactly when perform_axfr returned an
\* empty error string for it and 'Failed' otherwise, and its record_count is
\* the length of the record list perform_axfr returned for it.
C6_StatusAndCount ==
    \A k \in 1..Len(zones) :
        Processed(k) =>
            /\ zones[k].transfer_status =
                   IF run.returned[k].error = "" THEN "Success" ELSE "Failed"
            /\ zones[k].record_count = Len(run.returned[k].records)

\* a zone with two records was processed after a zone that failed
C6_Witness ==
    /\ Len(zones) >= 2
    /\ Processed(2)
    /\ run.returned[1].error # ""
    /\ run.returned[2].error = ""
    /\ Len(run.returned[2].records) = 2

LastOfName(k) == \A j \in (k + 1)..Len(zones) : zones[j].name # zones[k].name

-----------------------------------------------------------------------------
(* ExcelExporter: extract_ip_from_ptr and ip_sort_key *)

\* str.replace(old, new): every occurrence of old, left to right
RECURSIVE Replace(_, _, _)
Replace(s, old, new) ==
    IF Len(s) < Len(old) \/ Len(old) = 0 THEN s
    ELSE IF StartsWith(s, old)
         THEN new \o Replace(SubSeq(s, Len(old) + 1, Len(s)), old, new)
         ELSE SubSeq(s, 1, 1) \o Replace(SubSeq(s, 2, Len(s)), old, new)

\* str.split('.'): the texts between the dots, [''] for the empty string
RECURSIVE SplitDot(_)
SplitDot(s) ==
    IF HasDot(s)
    THEN << FirstLabel(s) >> \o SplitDot(SubSeq(s, Len(FirstLabel(s)) + 2, Len(s)))
    ELSE << s >>

\* list.reverse()
Reverse(parts) == [k \in 1..Len(parts) |-> parts[Len(parts) + 1 - k]]

\* sep.join(parts)
RECURSIVE Join(_, _)
Join(sep, parts) ==
    IF Len(parts) = 0 THEN ""
    ELSE IF Len(parts) = 1 THEN parts[1]
    ELSE parts[1] \o sep \o Join(sep, Tail(parts))

\* [s[i:i+4] for i in range(0, len(s), 4)]
GroupsOfFour(s) ==
    [k \in 1..((Len(s) + 3) \div 4) |->
        SubSeq(s, 4 * (k - 1) + 1, IF 4 * k <= Len(s) THEN 4 * k ELSE Len(s))]

SuffixIPv4 == ".in-addr.arpa"
SuffixIPv6 == ".ip6.arpa"

\* the labels of the record name put in front of those of the zone
SwappedOrderParts(zone_parts, record_parts) == record_parts \o zone_parts

\* line 379: all_parts = zone_parts + record_parts
AllParts(zone_parts, record_parts) == zone_parts \o record_parts

\* the nibbles of the record name taken in the order given
Ipv6HexForward(zone_parts, record_parts) == Join("", record_parts \o zone_parts)

\* lines 392-394: ipv6_hex = ''.join(reversed record_parts + zone_parts)
Ipv6Hex(zone_parts, record_parts) == Join("", Reverse(record_parts) \o zone_parts)

\* extract_ip_from_ptr (no statement of its try block raises for str arguments)
ExtractIpFromPtr(zone_name, record_name) ==
    IF EndsWith(zone_name, SuffixIPv4)
    THEN LET zone_parts == Reverse(SplitDot(Replace(zone_name, SuffixIPv4, "")))
         IN IF record_name = "@"
            THEN Join(".", zone_parts)
            ELSE Join(".", AllParts(zone_parts, SplitDot(record_name)))
    ELSE IF EndsWith(zone_name, SuffixIPv6)
    THEN LET zone_parts == Reverse(SplitDot(Replace(zone_name, SuffixIPv6, "")))
             ipv6_hex == IF record_name = "@"
                         THEN Join("", zone_parts)
                         ELSE Ipv6Hex(zone_parts, SplitDot(record_name))
         IN Join(":", GroupsOfFour(ipv6_hex))
    ELSE record_name \o "." \o zone_name

Digits == "0123456789"

\* str.isdigit() (ASCII): at least one character and every character a digit
IsDigit(p) ==
    /\ Len(p) > 0
    /\ \A k \in 1..Len(p) : \E d \in 1..10 : SubSeq(Digits, d, d) = SubSeq(p, k, k)

DigitValue(ch) == (CHOOSE d \in 1..10 : SubSeq(Digits, d, d) = ch) - 1

\* int(p) of a text of digits
ParseInt(p) ==
    LET value[k \in 0..Len(p)] ==
            IF k = 0 THEN 0 ELSE 10 * value[k - 1] + DigitValue(SubSeq(p, k, k))
    IN value[Len(p)]

HasColon(s) == \E k \in 1..Len(s) : SubSeq(s, k, k) = ":"

\* a key that keeps the text of the address
IpSortKeyText(ip_str) == [kind |-> "str", items |-> << ip_str >>]

\* ip_sort_key: a tuple of at most four ints, or the 1-tuple of the text
IpSortKey(ip_str) ==
    IF HasDot(ip_str) /\ ~HasColon(ip_str)
    THEN LET parts == SplitDot(ip_str)
             first == SubSeq(parts, 1, IF Len(parts) < 4 THEN Len(parts) ELSE 4)
         IN [kind |-> "int",
             items |-> [k \in 1..Len(first) |->
                           IF IsDigit(first[k]) THEN ParseInt(first[k]) ELSE 0]]
    ELSE [kind |-> "str", items |-> << ip_str >>]

-----------------------------------------------------------------------------
(* extract_ip_from_ptr called on an ExcelExporter (the unit tests) *)

ExtractZoneNames ==
    {"1.168.192.in-addr.arpa", "168.192.in-addr.arpa", "10.in-addr.arpa",
     "0-127.1.168.192.in-addr.arpa", "1.168.192.in-addr.arpa.",
     "8.b.d.0.1.0.0.2.ip6.arpa", "0.8.b.d.0.1.0.0.2.ip6.arpa",
     "0.0.0.0.8.b.d.0.1.0.0.2.ip6.arpa", "example.com"}

ExtractRecordNames == {"@", "10", "255", "10.1", "1.0.0.0", "a.0", "f.e.d", "www"}

\* an ExcelExporter on which no method has been called
InitExporter ==
    /\ InitTransfer(FALSE)
    /\ zones = << >>
    /\ records_by_zone = << >>
    /\ run = NoRun
    /\ ex = NoExport

\* exporter.extract_ip_from_ptr(zone_name, record_name) is called
ExtractCall(zone_name, record_name) ==
    /\ ex.pc = "none"
    /\ ex' = [NoExport EXCEPT !.pc = "call", !.fn = "extract_ip_from_ptr",
                              !.args = << zone_name, record_name >>]
    /\ UNCHANGED <<axfrVars, zones, records_by_zone, run>>

\* lines 361-406: the call returns the address text
ExtractReturn ==
    /\ ex.pc = "call"
    /\ ex.fn = "extract_ip_from_ptr"
    /\ ex' = [ex EXCEPT !.pc = "done",
                        !.result = ExtractIpFromPtr(ex.args[1], ex.args[2])]
    /\ UNCHANGED <<axfrVars, zones, records_by_zone, run>>

NextExtract ==
    \/ \E zone_name \in ExtractZoneNames, record_name \in ExtractRecordNames :
           ExtractCall(zone_name, record_name)
    \/ ExtractReturn

SpecExtract == InitExporter /\ [][NextExtract]_vars

-----------------------------------------------------------------------------
(* sorted(..., key=...) and list.sort(key=...) as the exporter uses them *)

\* the characters of the texts compared, in code point order
CodePoints == " -./0123456789:@ABCDEFGHIJKLMNOPQRSTUVWXYZ_abcdefghijklmnopqrstuvwxyz"

\* the place of every character in that order
OrdOf ==
    [c \in {SubSeq(CodePoints, k, k) : k \in 1..Len(CodePoints)} |->
        CHOOSE k \in 1..Len(CodePoints) : SubSeq(CodePoints, k, k) = c]

Ord(ch) == OrdOf[ch]

\* str < str: the first place where the texts differ decides, a proper
\* prefix comes first
StrLess(a, b) ==
    LET shorter == IF Len(a) < Len(b) THEN Len(a) ELSE Len(b)
        differ == {k \in 1..shorter : SubSeq(a, k, k) # SubSeq(b, k, k)}
    IN IF differ = {} THEN Len(a) < Len(b)
       ELSE LET d == CHOOSE k \in differ : \A m \in differ : k <= m
            IN Ord(SubSeq(a, d, d)) < Ord(SubSeq(b, d, d))

\* the key of name.lower()
TextKey(text) == [kind |-> "str", items |-> << Lower(text) >>]

\* item < item inside a tuple comparison (both of the kind of the key)
ItemLess(kind, x, y) == IF kind = "int" THEN x < y ELSE StrLess(x, y)

\* tuple < tuple for two keys of one kind
KeyLess(a, b) ==
    \E k \in 1..Len(b.items) :
        /\ \A m \in 1..(k - 1) : m <= Len(a.items) /\ a.items[m] = b.items[m]
        /\ \/ k = Len(a.items) + 1
           \/ k <= Len(a.items) /\ ItemLess(a.kind, a.items[k], b.items[k])

\* comparing a tuple of ints with a tuple holding a str raises TypeError
SortRaises(keys) ==
    \E i, j \in 1..Len(keys) : keys[i].kind # keys[j].kind

\* the place the stable sort gives to item i
PlaceOf(keys, i) ==
    1 + Cardinality({j \in 1..Len(keys) : KeyLess(keys[j], keys[i])})
      + Cardinality({j \in 1..(i - 1) :
                        ~KeyLess(keys[j], keys[i]) /\ ~KeyLess(keys[i], keys[j])})

\* the items moved to their places
Placed(items, places) ==
    [p \in 1..Len(items) |-> items[CHOOSE i \in 1..Len(items) : places[i] = p]]

\* the items in the order of their keys, equal keys in their first order
StableSort(items, keys) == Placed(items, [i \in 1..Len(keys) |-> PlaceOf(keys, i)])

-----------------------------------------------------------------------------
(* sorted(ips, key=exporter.ip_sort_key) (the unit test of ip_sort_key) *)

MaxIps == 4         \* length of the list of addresses sorted

\* dotted IPv4 addresses and their four octets
Ipv4Samples ==
    { [text |-> "10.0.0.1", octets |-> << 10, 0, 0, 1 >>],
      [text |-> "192.168.1.1", octets |-> << 192, 168, 1, 1 >>],
      [text |-> "192.168.1.10", octets |-> << 192, 168, 1, 10 >>],
      [text |-> "192.168.1.100", octets |-> << 192, 168, 1, 100 >>],
      [text |-> "192.168.1.9", octets |-> << 192, 168, 1, 9 >>] }

Ipv4Texts == {a.text : a \in Ipv4Samples}

Ipv4Lists == UNION {[1..n -> Ipv4Texts] : n \in 1..MaxIps}

\* sorted(ips, key=exporter.ip_sort_key) is called
SortCall(ips) ==
    /\ ex.pc = "none"
    /\ ex' = [NoExport EXCEPT !.pc = "call", !.fn = "sorted", !.args = ips]
    /\ UNCHANGED <<axfrVars, zones, records_by_zone, run>>

\* it returns the sorted list, or raises TypeError
SortReturn ==
    /\ ex.pc = "call"
    /\ ex.fn = "sorted"
    /\ LET keys == [k \in 1..Len(ex.args) |-> IpSortKey(ex.args[k])]
       IN ex' = IF SortRaises(keys)
                THEN [ex EXCEPT !.pc = "raised", !.result = "TypeError"]
                ELSE [ex EXCEPT !.pc = "done", !.result = StableSort(ex.args, keys)]
    /\ UNCHANGED <<axfrVars, zones, records_by_zone, run>>

NextSort ==
    \/ \E ips \in Ipv4Lists : SortCall(ips)
    \/ SortReturn

SpecSort == InitExporter /\ [][NextSort]_vars

-----------------------------------------------------------------------------
(* ExcelExporter: the consolidated PTR, CNAME, SRV and AAAA tables *)

Whitespace == {" ", "\t"}

\* s without its leading whitespace
LStrip(s) ==
    LET inked == {k \in 1..Len(s) : SubSeq(s, k, k) \notin Whitespace}
    IN IF inked = {} THEN ""
       ELSE SubSeq(s, CHOOSE k \in inked : \A j \in inked : k <= j, Len(s))

\* the length of the run of non-whitespace characters s begins with
WordLen(s) ==
    LET stops == {k \in 1..Len(s) : SubSeq(s, k, k) \in Whitespace}
    IN IF stops = {} THEN Len(s)
       ELSE (CHOOSE k \in stops : \A j \in stops : k <= j) - 1

\* str.split(None, maxsplit): runs of whitespace separate the fields, after
\* maxsplit splits the rest of the text (less its leading whitespace) is the
\* last field
RECURSIVE SplitWhitespace(_, _)
SplitWhitespace(s, maxsplit) ==
    LET rest == LStrip(s)
    IN IF rest = "" THEN << >>
       ELSE IF maxsplit = 0 THEN << rest >>
       ELSE << SubSeq(rest, 1, WordLen(rest)) >> \o
            SplitWhitespace(SubSeq(rest, WordLen(rest) + 1, Len(rest)), maxsplit - 1)

\* records_by_zone.get(zone.name, [])
DictGet(d, key, default) == IF key \in DOMAIN d THEN d[key] ELSE default

\* lines 189-192: the name of a record inside its zone
RowName(record_name, zone_name) ==
    IF record_name = "@" THEN zone_name ELSE record_name \o "." \o zone_name

\* lines 135-145: the row of a PTR record
PtrRow(zone_name, record) ==
    [ip |-> ExtractIpFromPtr(zone_name, record.name), fqdn |-> RStripDot(record.data),
     zone |-> zone_name, ttl |-> record.ttl]

\* lines 189-202: the row of a CNAME record
CnameRow(zone_name, record) ==
    [name |-> RowName(record.name, zone_name), target |-> RStripDot(record.data),
     zone |-> zone_name, ttl |-> record.ttl]

\* a malformed SRV record gives no row
SrvRowsStrict(zone_name, record) ==
    LET parts == SplitWhitespace(record.data, 3)
    IN IF Len(parts) >= 4
       THEN << [service |-> RowName(record.name, zone_name),
                priority |-> parts[1], weight |-> parts[2], port |-> parts[3],
                target |-> RStripDot(parts[4]), zone |-> zone_name,
                ttl |-> record.ttl] >>
       ELSE << >>

\* lines 246-273: the rows appended for an SRV record
SrvRows(zone_name, record) ==
    LET parts == SplitWhitespace(record.data, 3)
        service == RowName(record.name, zone_name)
    IN IF Len(parts) >= 4
       THEN << [service |-> service,
                priority |-> parts[1], weight |-> parts[2], port |-> parts[3],
                target |-> RStripDot(parts[4]), zone |-> zone_name,
                ttl |-> record.ttl] >>
       ELSE << [service |-> service,
                priority |-> "", weight |-> "", port |-> "",
                target |-> RStripDot(record.data), zone |-> zone_name,
                ttl |-> record.ttl] >>

\* lines 320-333: the row of an AAAA record
AaaaRow(zone_name, record) ==
    [name |-> RowName(record.name, zone_name), ipv6 |-> record.data,
     zone |-> zone_name, ttl |-> record.ttl]

\* the rows appended for one record while the table of record_type is collected
RowsOf(record_type, zone_name, record) ==
    IF record.record_type # record_type THEN << >>
    ELSE CASE record_type = "PTR" -> << PtrRow(zone_name, record) >>
           [] record_type = "CNAME" -> << CnameRow(zone_name, record) >>
           [] record_type = "SRV" -> SrvRows(zone_name, record)
           [] record_type = "AAAA" -> << AaaaRow(zone_name, record) >>

\* for record in records: the rows of one zone
RECURSIVE RowsOfRecords(_, _, _)
RowsOfRecords(record_type, zone_name, records) ==
    IF records = << >> THEN << >>
    ELSE RowsOf(record_type, zone_name, Head(records)) \o
         RowsOfRecords(record_type, zone_name, Tail(records))

\* for zone in zones: the rows of all zones, in the order they are appended
RECURSIVE RowsOfZones(_, _, _)
RowsOfZones(record_type, zone_list, by_zone) ==
    IF zone_list = << >> THEN << >>
    ELSE RowsOfRecords(record_type, Head(zone_list).name,
                       DictGet(by_zone, Head(zone_list).name, << >>)) \o
         RowsOfZones(record_type, Tail(zone_list), by_zone)

\* the list a sheet method starts from, were it kept on the exporter
KeptList(previous) == previous

\* lines 124, 181, 238, 312: ptr_records = [] (a new local list in every call)
NewList(previous) == << >>

\* the key the rows of a table are sorted by
SortKeyOf(record_type, row) ==
    CASE record_type = "PTR" -> IpSortKey(row.ip)
      [] record_type = "CNAME" -> TextKey(row.name)
      [] record_type = "SRV" -> TextKey(row.service)
      [] record_type = "AAAA" -> TextKey(row.name)

\* rows.sort(key=...): the sorted rows, or the exception the sort raises
SortRows(rows, keys) ==
    IF SortRaises(keys) THEN [raised |-> "TypeError", rows |-> << >>]
    ELSE [raised |-> "", rows |-> StableSort(rows, keys)]

\* the rows collected for a sheet, sorted by the key of the sheet
Sorted(record_type, rows) ==
    SortRows(rows, [k \in 1..Len(rows) |-> SortKeyOf(record_type, rows[k])])

\* one create_*_records_sheet method: the rows it appends to its sheet, or
\* the exception its sort raises
Sheet(record_type, zone_list, by_zone, previous) ==
    Sorted(record_type, NewList(previous) \o RowsOfZones(record_type, zone_list, by_zone))

\* the record types that have a consolidated sheet
TableTypes == {"PTR", "CNAME", "SRV", "AAAA"}

\* no build yet: what an exporter that kept its lists would start from
NoTables == [t \in TableTypes |-> << >>]

\* lines 55-58 of create_workbook: the four sheets
Sheets(zone_list, by_zone, previous) ==
    [t \in TableTypes |-> Sheet(t, zone_list, by_zone, previous[t])]

-----------------------------------------------------------------------------
(* create_workbook called on zones and records_by_zone (the unit tests) *)

MaxBuilds == 2      \* create_workbook calls made on one ExcelExporter

TableZoneNames == {"1.168.192.in-addr.arpa", "8.b.d.0.1.0.0.2.ip6.arpa", "example.com"}

\* the record lists stored in records_by_zone
TableRecordLists ==
    { << >>,
      << DNSRecord("20", "PTR", 300, "server2.example.com."),
         DNSRecord("10", "PTR", 300, "server1.example.com."),
         DNSRecord("www", "A", 300, "192.168.1.10"),
         DNSRecord("10", "PTR", 300, "server1.example.com.") >>,
      << DNSRecord("_sip._tcp", "SRV", 600, "10 60 5060 sipserver.example.com."),
         DNSRecord("www", "CNAME", 300, "web.example.com."),
         DNSRecord("_ldap._tcp", "SRV", 600, "10 60"),
         DNSRecord("@", "AAAA", 300, "2001:db8::1"),
         DNSRecord("_Kerberos._tcp", "SRV", 600, "0 100\t88  kdc one."),
         DNSRecord("Mail", "CNAME", 300, "mx.example.com."),
         DNSRecord("host", "AAAA", 300, "2001:db8::2"),
         DNSRecord("ns1.example.net.", "AAAA", 300, "2001:db8::3") >> }

TableDicts ==
    UNION {[names -> TableRecordLists] :
              names \in {d \in SUBSET TableZoneNames : Cardinality(d) >= 2}}

\* the ZoneInfo of a transferred zone
TransferredZone(zone_name, by_zone) ==
    ZoneInfo(zone_name, "Primary", 1, "Success",
             Len(DictGet(by_zone, zone_name, << >>)), "")

InitTables ==
    /\ InitTransfer(FALSE)
    /\ run = NoRun
    /\ ex = NoExport
    /\ records_by_zone \in TableDicts
    /\ \E n \in 0..MaxZones : \E names \in [1..n -> TableZoneNames] :
           zones = [k \in 1..n |-> TransferredZone(names[k], records_by_zone)]

\* the tables of the build made before this one
PreviousTables ==
    IF ex.pc = "none" \/ ex.result = << >> THEN NoTables
    ELSE ex.result[Len(ex.result)].tables

\* what a create_workbook call leaves: the rows of the four sheets, or no
\* workbook when a sheet method raised
Outcome(sheets) ==
    IF \E t \in TableTypes : sheets[t].raised # ""
    THEN [raised |-> "TypeError", tables |-> NoTables,
          sheet |-> CHOOSE t \in TableTypes : sheets[t].raised # ""]
    ELSE [raised |-> "", tables |-> [t \in TableTypes |-> sheets[t].rows],
          sheet |-> ""]

\* a create_workbook call that ends with outcome
Build(outcome) ==
    /\ ex.pc \in {"none", "done", "raised"}
    /\ Len(ex.result) < MaxBuilds
    /\ ex' = [ex EXCEPT !.pc = IF outcome.raised = "" THEN "done" ELSE "raised",
                        !.fn = "create_workbook", !.result = Append(@, outcome)]
    /\ UNCHANGED <<axfrVars, zones, records_by_zone, run>>

\* create_workbook(zones, records_by_zone) builds the four sheets
CreateWorkbook ==
    /\ Build(Outcome(Sheets(zones, records_by_zone, PreviousTables)))
    /\ ex'.pc = "done"

\* create_workbook is left by the exception of a sheet method: no workbook
CreateWorkbookRaise ==
    /\ Build(Outcome(Sheets(zones, records_by_zone, PreviousTables)))
    /\ ex'.pc = "raised"

NextTables == CreateWorkbook \/ CreateWorkbookRaise

SpecTables == InitTables /\ [][NextTables]_vars

-----------------------------------------------------------------------------
(* Claims about validation warnings and the transfer result *)

\* C11: a call whose provider call and zone parse both succeeded returns an
\* empty error string, however many warnings were produced, with or without a
\* logger, and whatever forwarding the warnings to the logger does.
C11_WarningsNeverFail ==
    \A c \in Returning :
        call[c].raised.at \notin {"xfr", "parse"} => call[c].error_message = ""

\* the warnings the call numbered id has handed to logger.warning, in order
LoggedBy(id) ==
    LET own == SelectSeq(logged, LAMBDA entry : entry.id = id)
    IN [k \in 1..Len(own) |-> own[k].warning]

\* C12: when two calls for different zones interleave on one instance, a call
\* that raised nothing has forwarded to the logger exactly the warnings
\* produced while parsing its own zone: none of the other call's, none lost
\* to the other call's reset, none twice.
C12_OwnWarningsOnly ==
    \A c \in DOMAIN call :
        (call[c].pc = "return" /\ call[c].raised.type = "none" /\ logger)
            => LoggedBy(call[c].id) = call[c].produced

-----------------------------------------------------------------------------
(* Claims about interrupting the transfer loop *)

\* C13: a KeyboardInterrupt anywhere in the transfer loop ends the run: from
\* then on no transfer is started, and every zone processed before the
\* interrupt keeps its transfer_status, record_count, error_message and its
\* records_by_zone entry.
C13_InterruptKeepsCompleted ==
    [][run'.pc = "cancelled" =>
          /\ run'.attempted = run.attempted
          /\ ncalls' = ncalls
          /\ call'[Driver].pc = "idle"
          /\ \A k \in 1..Len(zones) :
                 Processed(k) =>
                     /\ zones'[k] = zones[k]
                     /\ zones[k].name \in DOMAIN records_by_zone'
                     /\ records_by_zone'[zones[k].name] = records_by_zone[zones[k].name]]_vars

\* the run was interrupted inside the second transfer, after a first zone
\* with two records had been processed
C13_Witness ==
    /\ run.pc = "cancelled"
    /\ run.i = 2
    /\ run.attempted = << 1, 2 >>
    /\ Len(run.returned) = 1
    /\ zones[1].transfer_status = "Success"
    /\ zones[1].record_count = 2
    /\ Len(records_by_zone[zones[1].name]) = 2
    /\ zones[2].transfer_status = "Pending"

-----------------------------------------------------------------------------
(* Claims about _validate_hostname_match *)

\* h is the label of s before its first dot (the whole of s without a dot)
IsLabelBeforeFirstDot(h, s) == ~HasDot(h) /\ (s = h \/ StartsWith(s, h \o "."))

LabelBeforeFirstDot(s) ==
    CHOOSE h \in {SubSeq(s, 1, n) : n \in 0..Len(s)} : IsLabelBeforeFirstDot(h, s)

\* x and y are the same character or the two cases of one letter
SameLetter(x, y) ==
    \/ x = y
    \/ \E k \in 1..26 : {x, y} = {SubSeq(UpperAlpha, k, k), SubSeq(LowerAlpha, k, k)}

EqualIgnoringCase(a, b) ==
    /\ Len(a) = Len(b)
    /\ \A k \in 1..Len(a) : SameLetter(SubSeq(a, k, k), SubSeq(b, k, k))

StripTrailingDot(s) == IF EndsWith(s, ".") THEN SubSeq(s, 1, Len(s) - 1) ELSE s

\* the frames that have just validated the record of a one-record zone
Validated == {c \in DOMAIN call : call[c].pc = "parse" /\ call[c].pos = 2
                                  /\ Len(call[c].parsed) = 1}

\* C14: for a CNAME record _validate_hostname_match appends exactly one
\* warning when the hostname part of the record name (its label before the
\* first dot, the first label of the zone name for '@') differs, ignoring
\* case, from the label before the first dot of the target without its
\* trailing dot, and none when the two are equal ignoring case.
C14_OneWarningIffMismatch ==
    \A c \in Validated :
        LET record == call[c].parsed[1]
            hostname == IF record.name = "@"
                        THEN LabelBeforeFirstDot(call[c].zone_name)
                        ELSE LabelBeforeFirstDot(record.name)
            target == LabelBeforeFirstDot(StripTrailingDot(record.data))
        IN record.record_type = "CNAME" =>
               /\ lists[validation_warnings] = call[c].produced
               /\ Len(call[c].produced) =
                      IF EqualIgnoringCase(hostname, target) THEN 0 ELSE 1

\* the apex CNAME of zone example.com pointing to web.example.com. gave one
\* warning
C14_Witness ==
    \E c \in Validated :
        /\ call[c].parsed[1].record_type = "CNAME"
        /\ call[c].parsed[1].name = "@"
        /\ call[c].zone_name = "example.com"
        /\ call[c].parsed[1].data = "web.example.com."
        /\ Len(lists[validation_warnings]) = 1

-----------------------------------------------------------------------------
(* Claims about extract_ip_from_ptr and ip_sort_key *)

\* the text after the first dot of s
AfterFirstDot(s) == SubSeq(s, Len(LabelBeforeFirstDot(s)) + 2, Len(s))

\* the labels of p in reversed order, joined by sep
RECURSIVE ReversedLabels(_, _)
ReversedLabels(p, sep) ==
    IF HasDot(p)
    THEN ReversedLabels(AfterFirstDot(p), sep) \o sep \o LabelBeforeFirstDot(p)
    ELSE p

\* zone_name without the suffix it ends in
BeforeSuffix(zone_name, suffix) == SubSeq(zone_name, 1, Len(zone_name) - Len(suffix))

ExtractDone == ex.fn = "extract_ip_from_ptr" /\ ex.pc = "done"

\* C15: for a zone name ending in '.in-addr.arpa' extract_ip_from_ptr returns
\* the zone's labels before the suffix in reversed order joined by '.' when
\* the record name is '@', and otherwise those labels followed by the labels
\* of the record name in the order given.
C15_IPv4FromPtr ==
    (ExtractDone /\ EndsWith(ex.args[1], ".in-addr.arpa")) =>
        LET octets == ReversedLabels(BeforeSuffix(ex.args[1], ".in-addr.arpa"), ".")
        IN ex.result = IF ex.args[2] = "@" THEN octets
                       ELSE octets \o "." \o ex.args[2]

\* zone 168.192.in-addr.arpa with record 10.1 gave 192.168.10.1
C15_Witness ==
    /\ ExtractDone
    /\ ex.args = << "168.192.in-addr.arpa", "10.1" >>
    /\ ex.result = "192.168.10.1"

\* C16: for a zone name ending in '.ip6.arpa' extract_ip_from_ptr returns
\* the hex string made of the record name's labels in reversed order (none
\* for '@') followed by the zone's labels before the suffix in reversed
\* order, with a ':' after every 4 characters except at the end and nothing
\* else changed.
C16_IPv6FromPtr ==
    (ExtractDone /\ EndsWith(ex.args[1], ".ip6.arpa")) =>
        LET zone_hex == ReversedLabels(BeforeSuffix(ex.args[1], ".ip6.arpa"), "")
            hex == IF ex.args[2] = "@" THEN zone_hex
                   ELSE ReversedLabels(ex.args[2], "") \o zone_hex
            text == ex.result
        IN /\ Len(text) = Len(hex) + ((Len(hex) - 1) \div 4)
           /\ \A k \in 1..Len(text) :
                  SubSeq(text, k, k) = IF k % 5 = 0 THEN ":"
                                       ELSE SubSeq(hex, k - (k \div 5), k - (k \div 5))

\* zone 0.8.b.d.0.1.0.0.2.ip6.arpa with record a.0 gave 0a20:010d:b80
C16_Witness ==
    /\ ExtractDone
    /\ ex.args = << "0.8.b.d.0.1.0.0.2.ip6.arpa", "a.0" >>
    /\ ex.result = "0a20:010d:b80"

\* the four octets of a sample address
OctetsOf(text) == (CHOOSE a \in Ipv4Samples : a.text = text).octets

\* octets o1 come before octets o2 in numeric order
NumericLess(o1, o2) ==
    \E k \in 1..4 : o1[k] < o2[k] /\ \A m \in 1..(k - 1) : o1[m] = o2[m]

Occurrences(list, x) == Cardinality({k \in 1..Len(list) : list[k] = x})

\* C17: ip_sort_key orders two dotted IPv4 addresses of four numeric octets
\* by their octets compared as integers from the left, and sorting a list of
\* such addresses with it gives the same addresses in ascending numeric order.
C17_NumericOrder ==
    (ex.fn = "sorted" /\ ex.pc # "call") =>
        /\ ex.pc = "done"
        /\ Len(ex.result) = Len(ex.args)
        /\ \A a \in Ipv4Texts : Occurrences(ex.result, a) = Occurrences(ex.args, a)
        /\ \A i, j \in 1..Len(ex.result) :
               i < j => ~NumericLess(OctetsOf(ex.result[j]), OctetsOf(ex.result[i]))
        /\ \A i, j \in 1..Len(ex.args) :
               KeyLess(IpSortKey(ex.args[i]), IpSortKey(ex.args[j]))
                   <=> NumericLess(OctetsOf(ex.args[i]), OctetsOf(ex.args[j]))

\* the list of the unit test came back in ascending numeric order
C17_Witness ==
    /\ ex.fn = "sorted"
    /\ ex.pc = "done"
    /\ ex.args = << "192.168.1.100", "192.168.1.10", "192.168.1.1", "10.0.0.1" >>
    /\ ex.result = << "10.0.0.1", "192.168.1.1", "192.168.1.10", "192.168.1.100" >>

-----------------------------------------------------------------------------
(* Claims about the consolidated tables *)

\* the create_workbook calls that returned a workbook
Built == {b \in 1..Len(ex.result) : ex.fn = "create_workbook" /\ ex.result[b].raised = ""}

\* the names of the zones of the zone list
ListedNames == {zones[k].name : k \in 1..Len(zones)}

\* the records of record_type stored under zone_name, by their place in its list
StoredOfType(record_type, zone_name) ==
    IF zone_name \in DOMAIN records_by_zone
    THEN {i \in 1..Len(records_by_zone[zone_name]) :
             records_by_zone[zone_name][i].record_type = record_type}
    ELSE {}

\* SRV data and what the SRV sheet is to show for it: priority, weight, port
\* and target
SrvExpected ==
    { [data |-> "10 60 5060 sipserver.example.com.",
       fields |-> << "10", "60", "5060", "sipserver.example.com" >>],
      [data |-> "10 60", fields |-> << "", "", "", "10 60" >>],
      [data |-> "0 100\t88  kdc one.", fields |-> << "0", "100", "88", "kdc one" >>] }

\* C18: every SRV record has a row in the SRV sheet; data of 4 whitespace
\* separated fields (the fourth being all the rest) gives priority, weight
\* and port from the first three and the rest without its trailing dot as
\* target, data of fewer fields gives empty priority, weight and port and
\* the whole data without its trailing dot as target.
C18_SrvRowFields ==
    \A b \in Built : \A zone_name \in ListedNames :
        \A i \in StoredOfType("SRV", zone_name) :
            LET record == records_by_zone[zone_name][i]
                expected == (CHOOSE e \in SrvExpected : e.data = record.data).fields
            IN \E k \in 1..Len(ex.result[b].tables["SRV"]) :
                   LET row == ex.result[b].tables["SRV"][k]
                   IN /\ row.zone = zone_name
                      /\ row.ttl = record.ttl
                      /\ << row.priority, row.weight, row.port, row.target >> = expected

\* a workbook was built whose SRV sheet has a row of a malformed record and
\* a row whose target is the rest of the data after three splits
C18_Witness ==
    \E b \in Built : \E k, m \in 1..Len(ex.result[b].tables["SRV"]) :
        LET rows == ex.result[b].tables["SRV"]
        IN /\ rows[k].priority = "" /\ rows[k].target = "10 60"
           /\ rows[m].port = "88" /\ rows[m].target = "kdc one"

\* C19: after create_workbook, the table of each type T in PTR, CNAME, SRV,
\* AAAA holds exactly one row for every record of type T stored in
\* records_by_zone under a zone of the zone list and no other row.
C19_OneRowPerRecord ==
    (ex.fn = "create_workbook") =>
        \A b \in 1..Len(ex.result) : \A t \in TableTypes :
            LET rows == ex.result[b].tables[t]
            IN \A zone_name \in ListedNames \cup {rows[k].zone : k \in 1..Len(rows)} :
                   Cardinality({k \in 1..Len(rows) : rows[k].zone = zone_name})
                       = IF zone_name \in ListedNames
                         THEN Cardinality(StoredOfType(t, zone_name)) ELSE 0

\* C20: building the tables twice from the same zones and records_by_zone
\* gives the same rows in the same order, and a type no listed zone has a
\* record of gives an empty table, not an error.
C20_RebuildIdentical ==
    (ex.fn = "create_workbook") =>
        /\ \A a, b \in 1..Len(ex.result) : ex.result[a] = ex.result[b]
        /\ \A b \in 1..Len(ex.result) : \A t \in TableTypes :
               (\A zone_name \in ListedNames : StoredOfType(t, zone_name) = {}) =>
                   /\ ex.result[b].sheet # t
                   /\ ex.result[b].tables[t] = << >>

\* two builds gave the same three PTR rows and the same empty CNAME table
C20_Witness ==
    /\ ex.fn = "create_workbook"
    /\ Len(ex.result) = 2
    /\ ex.result[1] = ex.result[2]
    /\ ex.result[2].raised = ""
    /\ Len(ex.result[2].tables["PTR"]) = 3
    /\ ex.result[2].tables["CNAME"] = << >>

-----------------------------------------------------------------------------
(* Trailing dot on the zone name                                            *)

\* the zone name without its one trailing dot
WithoutTrailingDot(zone_name) == SubSeq(zone_name, 1, Len(zone_name) - 1)

\* C21: a trailing dot on the zone name is insignificant: the address
\* extract_ip_from_ptr returns for a record under 'Z.' equals the one it
\* returns under 'Z', and the absolute name a CNAME, SRV or AAAA row is
\* given under 'Z.' equals the one under 'Z'.
C21_TrailingDotInsignificant ==
    (ExtractDone /\ EndsWith(ex.args[1], ".")) =>
        /\ ex.result = ExtractIpFromPtr(WithoutTrailingDot(ex.args[1]), ex.args[2])
        /\ RowName(ex.args[2], ex.args[1])
               = RowName(ex.args[2], WithoutTrailingDot(ex.args[1]))

-----------------------------------------------------------------------------
(* Forwarding of the warnings to the logger                                 *)

\* C22: a perform_axfr call hands nothing to logger.warning before parsing
\* has returned; while it loops over the warnings it has handed over the
\* first ones it produced, in the order produced; when it returns without
\* an exception and a logger is present it has handed over exactly the
\* warnings it produced, each once and in order; without a logger, or when
\* the provider call or the parsing raised, it has handed over none.
C22_LoggedOncePerWarning ==
    \A c \in Callers :
        LET f == call[c]
            own == LoggedBy(f.id)
        IN /\ f.pc \in {"reset", "xfr", "parse", "logif", "logfor"} => own = << >>
           /\ f.pc = "log" => /\ f.it_pos - 1 <= Len(f.produced)
                              /\ own = SubSeq(f.produced, 1, f.it_pos - 1)
           /\ (f.pc = "return" /\ f.raised.type = "none") =>
                  own = IF logger THEN f.produced ELSE << >>
           /\ f.raised.at \in {"xfr", "parse"} => own = << >>

\* a call with a logger returned without an exception after producing two
\* warnings and handing both to the logger
C22_Witness ==
    \E c \in Returning :
        /\ logger
        /\ call[c].raised.type = "none"
        /\ Len(call[c].produced) >= 2
        /\ LoggedBy(call[c].id) = call[c].produced
        /\ call[c].produced[1] # call[c].produced[2]

-----------------------------------------------------------------------------
(* Records that are not CNAME                                               *)

\* C23: parsing a record whose type is not CNAME (A, AAAA and every other
\* type) leaves validation_warnings as it was: the same list with the same
\* elements, whatever the record name, the data and the zone name are.
C23_NonCnameLeavesWarnings ==
    [][\A c \in Callers :
          (/\ call[c].pc = "parse"
           /\ call'[c].pc = "parse"
           /\ call'[c].pos = call[c].pos + 1
           /\ call'[c].parsed[call[c].pos].record_type # "CNAME")
          => /\ validation_warnings' = validation_warnings
             /\ lists' = lists
             /\ call'[c].produced = call[c].produced]_vars

\* the AAAA record www of zone example.com with data web.example.com., whose
\* labels differ, was parsed and left no warning
C23_Witness ==
    \E c \in Validated :
        /\ call[c].parsed[1].record_type = "AAAA"
        /\ call[c].parsed[1].name = "www"
        /\ call[c].parsed[1].data = "web.example.com."
        /\ call[c].zone_name = "example.com"
        /\ lists[validation_warnings] = << >>

-----------------------------------------------------------------------------
(* The records parse_zone_data returns                                      *)

\* the rdatas of a zone as (node, rdataset, rdata) index triples
Triples(zone) ==
    UNION {UNION {{<<n, s, d>> : d \in 1..Len(zone[n].rdatasets[s].rdatas)} :
                  s \in 1..Len(zone[n].rdatasets)} :
           n \in 1..Len(zone)}

\* u is met no later than t when iterating nodes, then rdatasets, then rdatas
NoLater(u, t) ==
    \/ u[1] < t[1]
    \/ u[1] = t[1] /\ u[2] < t[2]
    \/ u[1] = t[1] /\ u[2] = t[2] /\ u[3] <= t[3]

\* the calls whose parse_zone_data has just returned
Parsed == {c \in Callers : call[c].pc = "logif"}

\* C24: parse_zone_data returns exactly one DNSRecord per rdata: as many
\* records as the zone's nodes hold rdatas over all their rdatasets, in
\* node, rdataset, rdata iteration order, each carrying the node name as
\* given (not the absolute name), the type mnemonic and TTL of its rdataset
\* and the rdata's text; a zone without nodes gives the empty list.
C24_OneRecordPerRdata ==
    \A c \in Parsed :
        LET zone == call[c].zone
            records == call[c].records
        IN /\ Len(records) = Cardinality(Triples(zone))
           /\ \A t \in Triples(zone) :
                  LET k == Cardinality({u \in Triples(zone) : NoLater(u, t)})
                      rdataset == zone[t[1]].rdatasets[t[2]]
                  IN records[k] = [name |-> zone[t[1]].name,
                                   record_type |-> RdatatypeToText(rdataset.rdtype),
                                   ttl |-> rdataset.ttl,
                                   data |-> rdataset.rdatas[t[3]]]
           /\ zone = << >> => records = << >>

\* the zone with two rdatasets at '@' and one at ftp.eu gave three records
\* named '@', '@' and 'ftp.eu'
C24_Witness ==
    \E c \in Parsed :
        /\ call[c].zone = ZoneApex
        /\ Len(call[c].records) = 3
        /\ call[c].records[2] = [name |-> "@", record_type |-> "A", ttl |-> 3600,
                                 data |-> "10.0.0.1"]
        /\ call[c].records[3].name = "ftp.eu"

-----------------------------------------------------------------------------
(* Order of the consolidated tables                                         *)

\* C25: for every set of input records, PTR rows with dotted IPv4-form
\* addresses next to rows with colon-containing or dot-free addresses
\* included, create_workbook completes and every table is ascending by the
\* key of its sheet.
C25_TablesBuiltAscending ==
    ex.fn = "create_workbook" =>
        \A b \in 1..Len(ex.result) :
            /\ ex.result[b].raised = ""
            /\ \A t \in TableTypes :
                   LET rows == ex.result[b].tables[t]
                   IN \A k \in 1..(Len(rows) - 1) :
                          ~KeyLess(SortKeyOf(t, rows[k + 1]), SortKeyOf(t, rows[k]))

-----------------------------------------------------------------------------
(* The absolute name of a row                                               *)

\* the column holding the absolute name in the table of record_type
NameOf(record_type, row) == IF record_type = "SRV" THEN row.service ELSE row.name

\* C26: the name column of a CNAME or AAAA row and the service column of an
\* SRV row hold the absolute name parse_zone_data computes for the record's
\* node name and zone name: the zone name for '@', otherwise
\* '<recordName>.<zoneName>' without a redundant trailing dot.
C26_RowNameIsAbsoluteName ==
    \A b \in Built :
        \A t \in {"CNAME", "SRV", "AAAA"} :
            LET rows == ex.result[b].tables[t]
            IN \A k \in 1..Len(rows) :
                   \E i \in StoredOfType(t, rows[k].zone) :
                       NameOf(t, rows[k])
                           = Fqdn(records_by_zone[rows[k].zone][i].name, rows[k].zone)

-----------------------------------------------------------------------------
(* perform_axfr as a function of its input                                  *)

\* the provider's response to a call: the zone handed back, or the exception
\* the provider call or the parsing of its data raised
ProviderFailed(f) == f.raised.at \in {"xfr", "parse"}

\* C27: what perform_axfr returns is determined by the zone name and the
\* provider's response alone: the records of the zone handed back with an
\* empty error_message, or no record and the message of the provider's
\* exception; so two calls with the same zone name and response return the
\* same pair, whatever was called before on the instance.
C27_FunctionOfResponse ==
    \A c \in Returning :
        LET f == call[c]
            items == ZoneItems(f.zone)
        IN IF ProviderFailed(f)
           THEN /\ f.records = << >>
                /\ f.error_message = ExceptMessage(HandlerFor(f.raised), f.raised,
                                                   f.zone_name)
           ELSE /\ f.records = [k \in 1..Len(items) |->
                                   DNSRecord(items[k].name,
                                             RdatatypeToText(items[k].rdtype),
                                             items[k].ttl, items[k].rdata)]
                /\ f.error_message = ""

-----------------------------------------------------------------------------
(* The zone objects before, during and after the loop                       *)

C29_CountMatchesStored ==
    run.pc = "export" =>
        \A k \in 1..Len(zones) :
            /\ zones[k].name \in DOMAIN records_by_zone
            /\ zones[k].record_count = Len(records_by_zone[zones[k].name])

\* C30: when an interrupt ends the loop, every zone is either untouched
\* (Pending, count 0, no entry in records_by_zone) or fully updated: no zone
\* has an entry in records_by_zone or a non-zero record_count while its
\* status is still 'Pending'.
C30_NoHalfUpdatedZone ==
    run.pc = "cancelled" =>
        \A k \in 1..Len(zones) :
            zones[k].transfer_status = "Pending" =>
                /\ zones[k].name \notin DOMAIN records_by_zone
                /\ zones[k].record_count = 0

====
